---- MODULE Spec2Model ----
(***************************************************************************)
(* A model of easy_patch.py: the patch-script parser (ParserState, the     *)
(* lexical helpers, the directive parsers, parse_patch_file), the applier  *)
(* (apply_operation, apply_operations_to_content), the file grouper        *)
(* (group_operations_by_file) and main.                                    *)
(*                                                                         *)
(* A Python str is a sequence of one-character strings, so a keyword is    *)
(* the sequence of its characters and every lookahead, scan and slice is   *)
(* done character by character as the code does it.  Positions are         *)
(* 0-based as in Python; None is the value None.                           *)
(***************************************************************************)
EXTENDS Integers, Sequences, FiniteSets, TLC

VARIABLES
    arg,     \* the input of the function or program being run
    frame,   \* its activation: its locals, and pc, the place it has reached
    ret,     \* what it returned (the exit status, for main); None until then
    fs,      \* the file system: path -> content of the file, or Missing
    fs0,     \* the file system as it was when the run started
    io_log   \* the file-system calls made so far, in order

vars == <<arg, frame, ret, fs, fs0, io_log>>

-----------------------------------------------------------------------------
(* Characters and literals *)

NL == "\n"
\* None, a missing file and an unbound local: values no text equals (a text is a
\* sequence of single characters)
None == <<"None">>
Missing == <<"Missing">>
Unbound == <<"Unbound">>

Min(a, b) == IF a < b THEN a ELSE b

\* str.isspace() of one character, over the whitespace the model's texts use
IsSpace(c) == c \in {" ", "\n", "\t", "\r"}

KwFILE == <<"F", "I", "L", "E", ":">>
KwFIND == <<"F", "I", "N", "D", ":">>
KwREPLACE == <<"R", "E", "P", "L", "A", "C", "E", " ", "W", "I", "T", "H">>
KwADD_BEFORE == <<"A", "D", "D", " ", "B", "E", "F", "O", "R", "E">>
KwADD_AFTER == <<"A", "D", "D", " ", "A", "F", "T", "E", "R">>
KwDELETE == <<"D", "E", "L", "E", "T", "E">>
Colon == <<":">>
Unknown == <<"u", "n", "k", "n", "o", "w", "n">>

\* class OperationType, in its definition order (the order `for op_type in
\* OperationType` visits)
OperationType == <<"REPLACE", "ADD_BEFORE", "ADD_AFTER", "DELETE">>

OpValue(t) ==
    CASE t = "REPLACE" -> KwREPLACE
      [] t = "ADD_BEFORE" -> KwADD_BEFORE
      [] t = "ADD_AFTER" -> KwADD_AFTER
      [] t = "DELETE" -> KwDELETE

PatchOperation(path, find, op, new) ==
    [file_path |-> path, find_content |-> find, operation |-> op, new_content |-> new]

Error(path, message, index) ==
    [file_path |-> path, message |-> message, operation_index |-> index]

-----------------------------------------------------------------------------
(* str methods *)

RECURSIVE LStrip(_)
LStrip(s) == IF s # <<>> /\ IsSpace(Head(s)) THEN LStrip(Tail(s)) ELSE s

RECURSIVE RStrip(_)
RStrip(s) ==
    IF s # <<>> /\ IsSpace(s[Len(s)]) THEN RStrip(SubSeq(s, 1, Len(s) - 1)) ELSE s

\* str.strip() that forgets the right end
StripLeftOnly(s) == LStrip(s)

\* str.strip()
Strip(s) == RStrip(LStrip(s))

\* s[i:].startswith(t), i 0-based
StartsWithAt(s, i, t) ==
    /\ i + Len(t) <= Len(s)
    /\ \A k \in 1..Len(t) : s[i + k] = t[k]

\* str.find(sub, start): the lowest index >= start where sub occurs, else -1
Find(s, sub, start) ==
    LET hits == {i \in start..(Len(s) - Len(sub)) : StartsWithAt(s, i, sub)}
    IN IF hits = {} THEN -1 ELSE CHOOSE i \in hits : \A j \in hits : i <= j

\* s[a:b] for 0 <= a, b <= len(s)
Slice(s, a, b) == SubSeq(s, a + 1, b)

\* file_path.replace('\\', '/')
ReplaceBackslash(s) == [i \in 1..Len(s) |-> IF s[i] = "\\" THEN "/" ELSE s[i]]

-----------------------------------------------------------------------------
(* ParserState *)

ParserState(content, position, line) ==
    [content |-> content, position |-> position, line |-> line]

Current(st) ==
    IF st.position < Len(st.content) THEN st.content[st.position + 1] ELSE ""

Peek(st, n) ==
    SubSeq(st.content, st.position + 1, Min(st.position + n, Len(st.content)))

RECURSIVE Advance(_, _)
Advance(st, n) ==
    IF n = 0 THEN st
    ELSE Advance([st EXCEPT !.line = IF Current(st) = NL THEN @ + 1 ELSE @,
                            !.position = Min(@ + 1, Len(st.content))],
                 n - 1)

-----------------------------------------------------------------------------
(* Lexical helpers.  A helper that returns a value and moves the cursor    *)
(* yields [state, ...]; one that may raise yields ok = FALSE, the message  *)
(* and the cursor as the raise left it.                                    *)

RECURSIVE skip_whitespace(_)
skip_whitespace(st) ==
    IF IsSpace(Current(st)) THEN skip_whitespace(Advance(st, 1)) ELSE st

FoundDelimiter(st, delimiters) ==
    \E i \in 1..Len(delimiters) : Peek(st, Len(delimiters[i])) = delimiters[i]

RECURSIVE ParseUntilLoop(_, _, _)
ParseUntilLoop(st, delimiters, result) ==
    IF Current(st) = "" \/ FoundDelimiter(st, delimiters)
    THEN [state |-> st, result |-> result]
    ELSE ParseUntilLoop(Advance(st, 1), delimiters, Append(result, Current(st)))

parse_until(st, delimiters) == ParseUntilLoop(st, delimiters, <<>>)

parse_keyword(st, keyword) ==
    IF Peek(st, Len(keyword)) = keyword
    THEN [state |-> Advance(st, Len(keyword)), ok |-> TRUE]
    ELSE [state |-> st, ok |-> FALSE]

-----------------------------------------------------------------------------
(* Directive parsers *)

Raise(st, message) == [ok |-> FALSE, state |-> st, message |-> message]
Return(st, value) == [ok |-> TRUE, state |-> st, value |-> value]

parse_file_directive(st) ==
    LET s1 == skip_whitespace(st)
        k == parse_keyword(s1, KwFILE)
        u == parse_until(k.state, <<KwFIND, <<NL>>>>)
        path == Strip(u.result)
    IN IF ~k.ok THEN Raise(k.state, <<"Expected 'FILE:' at line", k.state.line>>)
       ELSE IF path = <<>> THEN Raise(u.state, <<"Empty file path">>)
       ELSE Return(u.state, ReplaceBackslash(path))

FindDelimiters ==
    <<KwREPLACE \o Colon, KwADD_BEFORE \o Colon, KwADD_AFTER \o Colon, KwDELETE>>

parse_find_block(st) ==
    LET s1 == skip_whitespace(st)
        k == parse_keyword(s1, KwFIND)
        u == parse_until(skip_whitespace(k.state), FindDelimiters)
    IN IF ~k.ok THEN Raise(k.state, <<"Expected 'FIND:' at line", k.state.line>>)
       ELSE Return(u.state, Strip(u.result))

OperationDelimiters == <<<<NL>> \o KwFIND, <<NL>> \o KwFILE>>

\* the body of `for op_type in OperationType` from its i-th member on; a
\* `continue` goes on with the cursor where parse_keyword left it
RECURSIVE ParseOperationLoop(_, _)
ParseOperationLoop(st, i) ==
    IF i > Len(OperationType) THEN Return(st, None)
    ELSE LET op_type == OperationType[i]
             k == parse_keyword(st, OpValue(op_type))
             u == parse_until(skip_whitespace(Advance(k.state, 1)), OperationDelimiters)
         IN IF ~k.ok THEN ParseOperationLoop(k.state, i + 1)
            ELSE IF op_type = "DELETE" THEN Return(k.state, <<op_type, None>>)
            ELSE IF Current(k.state) # ":" THEN ParseOperationLoop(k.state, i + 1)
            ELSE Return(u.state, <<op_type, Strip(u.result)>>)

parse_operation(st) == ParseOperationLoop(skip_whitespace(st), 1)

-----------------------------------------------------------------------------
(* parse_patch_file.  Its activation is the record f: pc is "outer" at the *)
(* test of the outer while, "inner" at the test of the inner while and     *)
(* "return" once it has returned (operations, errors).                     *)

Frame(content) ==
    [pc |-> "outer", state |-> ParserState(content, 0, 1), operations |-> <<>>,
     errors |-> <<>>, operation_index |-> 0, file_path |-> Unbound]

\* `'file_path' in locals()`: the local is bound from its first assignment on
ErrorPath(f) == IF f.file_path = Unbound THEN Unknown ELSE f.file_path

\* the except clause without its skip to the next FILE:
HandleValueErrorNoSkip(f, st, message) ==
    [f EXCEPT !.pc = "outer",
              !.errors = Append(@, Error(ErrorPath(f), message, f.operation_index)),
              !.state = st]

\* the except clause: record the error, then skip to the next FILE:
HandleValueError(f, st, message) ==
    [f EXCEPT !.pc = "outer",
              !.errors = Append(@, Error(ErrorPath(f), message, f.operation_index)),
              !.state = parse_until(st, <<KwFILE>>).state]

AtEnd(f) == f.state.position >= Len(f.state.content)

\* the lookahead of the inner loop: the next non-whitespace text is FILE:
RECURSIVE NextPos(_, _)
NextPos(content, next_pos) ==
    IF next_pos < Len(content) /\ IsSpace(content[next_pos + 1])
    THEN NextPos(content, next_pos + 1)
    ELSE next_pos

NextIsFile(f) ==
    LET next_pos == NextPos(f.state.content, f.state.position)
    IN next_pos < Len(f.state.content) /\ StartsWithAt(f.state.content, next_pos, KwFILE)

OuterStep(f) ==
    LET r == parse_file_directive(f.state)
    IN IF AtEnd(f) THEN [f EXCEPT !.pc = "return"]
       ELSE IF r.ok THEN [f EXCEPT !.pc = "inner", !.state = r.state, !.file_path = r.value]
       ELSE HandleValueError(f, r.state, r.message)

InnerStep(f) ==
    LET fb == parse_find_block(f.state)
        op == parse_operation(fb.state)
    IN IF AtEnd(f) \/ NextIsFile(f) THEN [f EXCEPT !.pc = "outer"]
       ELSE IF ~fb.ok THEN HandleValueError(f, fb.state, fb.message)
       ELSE IF op.value = None
            THEN HandleValueError(f, op.state, <<"Expected operation at line", op.state.line>>)
       ELSE [f EXCEPT !.state = skip_whitespace(op.state),
                      !.operations = Append(@, PatchOperation(f.file_path, fb.value,
                                                              op.value[1], op.value[2])),
                      !.operation_index = @ + 1]

Step(f) == IF f.pc = "outer" THEN OuterStep(f) ELSE InnerStep(f)

RECURSIVE RunFrame(_)
RunFrame(f) == IF f.pc = "return" THEN f ELSE RunFrame(Step(f))

\* parse_patch_file(content) as one call: [operations, errors]
parse_patch_file(content) ==
    LET f == RunFrame(Frame(content))
    IN [operations |-> f.operations, errors |-> f.errors]

-----------------------------------------------------------------------------
(* Patch scripts.  A script is the text of a list of blocks; a block is    *)
(* well-formed ("ok") or has one of the four faults of a malformed block.  *)

FileLine(path) == KwFILE \o <<" ">> \o path \o <<NL>>
FindText(find) == KwFIND \o <<NL>> \o find \o <<NL>>
OperationText(op) ==
    IF op.operation = "DELETE" THEN KwDELETE \o <<NL>>
    ELSE OpValue(op.operation) \o Colon \o <<NL>> \o op.new_content \o <<NL>>

RECURSIVE FindOpsText(_)
FindOpsText(ops) ==
    IF ops = <<>> THEN <<>>
    ELSE FindText(ops[1].find_content) \o OperationText(ops[1]) \o FindOpsText(Tail(ops))

BlockText(b) ==
    CASE b.shape = "ok" -> FileLine(b.path) \o FindOpsText(b.ops)
      [] b.shape = "no_file" -> FindOpsText(b.ops)
      [] b.shape = "empty_path" -> KwFILE \o <<NL>> \o FindOpsText(b.ops)
      [] b.shape = "no_find" -> FileLine(b.path) \o OperationText(b.ops[1])
      [] b.shape = "no_operation" -> FileLine(b.path) \o FindText(b.ops[1].find_content)

RECURSIVE ScriptText(_)
ScriptText(blocks) ==
    IF blocks = <<>> THEN <<>> ELSE BlockText(blocks[1]) \o ScriptText(Tail(blocks))

\* the operations a well-formed block stands for
BlockOperations(b) ==
    [i \in 1..Len(b.ops) |-> PatchOperation(b.path, b.ops[i].find_content,
                                            b.ops[i].operation, b.ops[i].new_content)]

RECURSIVE ScriptOperations(_)
ScriptOperations(blocks) ==
    IF blocks = <<>> THEN <<>>
    ELSE BlockOperations(blocks[1]) \o ScriptOperations(Tail(blocks))

FindOp(find, op, new) == [find_content |-> find, operation |-> op, new_content |-> new]
Block(shape, path, ops) == [shape |-> shape, path |-> path, ops |-> ops]

MaxBlocks == 2

BlockSet ==
    { Block("ok", <<"a">>, <<FindOp(<<"x">>, "REPLACE", <<"y">>)>>),
      Block("ok", <<"b">>, <<FindOp(<<"y">>, "DELETE", None),
                             FindOp(<<"x">>, "ADD_AFTER", <<"y">>)>>),
      Block("ok", <<"a">>, <<FindOp(<<"y">>, "ADD_BEFORE", <<"x", NL, NL, "x">>)>>),
      Block("no_file", <<"a">>, <<FindOp(<<"x">>, "DELETE", None)>>),
      Block("empty_path", <<"a">>, <<FindOp(<<"x">>, "REPLACE", <<"y">>)>>),
      Block("no_find", <<"a">>, <<FindOp(<<"x">>, "REPLACE", <<"y">>)>>),
      Block("no_operation", <<"b">>, <<FindOp(<<"x">>, "REPLACE", <<"y">>)>>) }

SeqsUpTo(S, n) == UNION {[1..k -> S] : k \in 0..n}

Scripts == SeqsUpTo(BlockSet, MaxBlocks)

-----------------------------------------------------------------------------
(* SpecParse: parse_patch_file run on a script, one loop test at a time.   *)
(* arg is the list of blocks the script is the text of.                    *)

NoFiles == <<>>

InitParse ==
    \E blocks \in Scripts :
        /\ arg = blocks
        /\ frame = Frame(ScriptText(blocks))
        /\ ret = None
        /\ fs = NoFiles /\ fs0 = NoFiles /\ io_log = <<>>

\* the outer while ends: return operations, errors
OuterReturn ==
    /\ frame.pc = "outer" /\ AtEnd(frame)
    /\ frame' = OuterStep(frame)
    /\ ret' = [operations |-> frame.operations, errors |-> frame.errors]
    /\ UNCHANGED <<arg, fs, fs0, io_log>>

FileDirective ==
    /\ frame.pc = "outer" /\ ~AtEnd(frame)
    /\ parse_file_directive(frame.state).ok
    /\ frame' = OuterStep(frame)
    /\ UNCHANGED <<arg, ret, fs, fs0, io_log>>

FileDirectiveError ==
    /\ frame.pc = "outer" /\ ~AtEnd(frame)
    /\ ~parse_file_directive(frame.state).ok
    /\ frame' = OuterStep(frame)
    /\ UNCHANGED <<arg, ret, fs, fs0, io_log>>

\* the inner while ends, by its test or by its break
InnerExit ==
    /\ frame.pc = "inner" /\ (AtEnd(frame) \/ NextIsFile(frame))
    /\ frame' = InnerStep(frame)
    /\ UNCHANGED <<arg, ret, fs, fs0, io_log>>

FindOperation ==
    /\ frame.pc = "inner" /\ ~(AtEnd(frame) \/ NextIsFile(frame))
    /\ InnerStep(frame).pc = "inner"
    /\ frame' = InnerStep(frame)
    /\ UNCHANGED <<arg, ret, fs, fs0, io_log>>

FindOperationError ==
    /\ frame.pc = "inner" /\ ~(AtEnd(frame) \/ NextIsFile(frame))
    /\ InnerStep(frame).pc = "outer"
    /\ frame' = InnerStep(frame)
    /\ UNCHANGED <<arg, ret, fs, fs0, io_log>>

NextParse ==
    \/ OuterReturn
    \/ FileDirective
    \/ FileDirectiveError
    \/ InnerExit
    \/ FindOperation
    \/ FindOperationError

SpecParse == InitParse /\ [][NextParse]_vars

IsSuffix(s, t) == Len(s) <= Len(t) /\ SubSeq(t, Len(t) - Len(s) + 1, Len(t)) = s

Malformed(b) == b.shape # "ok"

\* C6: error recovery.  When parse_patch_file has returned on a script made of
\* one malformed block (missing FILE:, missing FIND:, empty path, or a FIND block
\* with no operation) followed by well-formed blocks, it has recorded a ParseError
\* and its operations end with every operation of the following blocks, each with
\* its own path, match text, kind and replacement text.
C6_RecoveryAfterMalformedBlock ==
    (/\ frame.pc = "return"
     /\ Len(arg) >= 2
     /\ Malformed(arg[1])
     /\ \A i \in 2..Len(arg) : ~Malformed(arg[i]))
    => /\ ret.errors # <<>>
       /\ IsSuffix(ScriptOperations(Tail(arg)), ret.operations)

\* C9: the path and index of a ParseError.  Whenever parse_patch_file records an
\* error, its operation_index is the number of operations parsed so far, and its
\* file_path is "unknown" when the block's path has not been parsed (the failure
\* is the FILE: directive's, at the outer loop), also after an earlier block
\* parsed its path, and the block's own path otherwise.
C9_ParseErrorPath ==
    [][Len(frame'.errors) = Len(frame.errors) + 1
       => /\ frame'.errors[Len(frame'.errors)].operation_index = Len(frame.operations)
          /\ frame'.errors[Len(frame'.errors)].file_path =
                 IF frame.pc = "outer" THEN Unknown ELSE frame.file_path]_vars

-----------------------------------------------------------------------------
(* SpecParseFair: SpecParse as the interpreter runs it.  parse_patch_file  *)
(* is sequential code, so a loop that is not over takes its next step.     *)
(* Resume is that step, read from ParseSteps: the steps of NextParse on    *)
(* the activation records of the scripts, computed once.                   *)

\* frames and the activation records n steps at most lead to from them
RECURSIVE FramesWithin(_, _)
FramesWithin(frames, n) ==
    LET next == frames \cup {Step(f) : f \in {g \in frames : g.pc # "return"}}
    IN IF n = 0 \/ next = frames THEN frames ELSE FramesWithin(next, n - 1)

ParseFrames ==
    UNION {FramesWithin({Frame(ScriptText(blocks))}, 2 * Len(ScriptText(blocks)) + 3) :
               blocks \in Scripts}

ParseSteps == {<<f, Step(f)>> : f \in {g \in ParseFrames : g.pc # "return"}}

Resume ==
    /\ \E step \in ParseSteps : frame = step[1] /\ frame' = step[2]
    /\ ret' = IF frame'.pc = "return"
              THEN [operations |-> frame.operations, errors |-> frame.errors]
              ELSE ret
    /\ UNCHANGED <<arg, fs, fs0, io_log>>

SpecParseFair == InitParse /\ [][NextParse]_vars /\ WF_vars(Resume)

\* Resume is NextParse: every step of NextParse is one of Resume, and Resume can
\* be taken wherever the parser has not returned
ResumeIsNextParse ==
    [][Resume /\ (frame'.pc # "return" => frame' \in ParseFrames)]_vars

\* C11: termination.  In every run of parse_patch_file on a script: no step moves
\* the cursor back or past the end of the text; every step from the head of the
\* outer loop other than the return (a parsed FILE: directive, or a failure with
\* its skip to the next FILE:) and every iteration of the inner loop that stays in
\* it moves the cursor forward, so each iteration of the outer loop does; and the
\* parser eventually returns, on malformed scripts too.
C11_ParserTerminates ==
    /\ [][/\ frame.state.position <= frame'.state.position
          /\ frame'.state.position <= Len(frame'.state.content)
          /\ (frame.pc = "outer" /\ frame'.pc # "return")
                => frame.state.position < frame'.state.position
          /\ (frame.pc = "inner" /\ frame'.pc = "inner")
                => frame.state.position < frame'.state.position]_vars
    /\ <>(frame.pc = "return")

\* the parser has returned at the end of a script of two blocks after a failure,
\* its recovery skip and a parsed operation
C11_Witness ==
    /\ frame.pc = "return"
    /\ Len(arg) = 2
    /\ frame.errors # <<>>
    /\ frame.operations # <<>>
    /\ frame.state.position = Len(frame.state.content)

-----------------------------------------------------------------------------
(* SpecOperation: parse_operation called on a fresh ParserState, as the    *)
(* tests call it.  arg is the ParserState, ret what the call returned      *)
(* with the cursor as the call left it.                                    *)

MaxPieces == 2

Pieces ==
    {KwREPLACE, KwADD_BEFORE, KwADD_AFTER, KwDELETE, Colon, <<" ">>, <<NL>>, <<"x">>}

RECURSIVE Concat(_)
Concat(ss) == IF ss = <<>> THEN <<>> ELSE ss[1] \o Concat(Tail(ss))

OperationTexts == {Concat(ps) : ps \in SeqsUpTo(Pieces, MaxPieces)}

InitOperation ==
    \E text \in OperationTexts :
        /\ arg = ParserState(text, 0, 1)
        /\ frame = [pc |-> "call"]
        /\ ret = None
        /\ fs = NoFiles /\ fs0 = NoFiles /\ io_log = <<>>

CallParseOperation ==
    /\ frame.pc = "call"
    /\ ret' = parse_operation(arg)
    /\ frame' = [pc |-> "returned"]
    /\ UNCHANGED <<arg, fs, fs0, io_log>>

NextOperation == CallParseOperation

SpecOperation == InitOperation /\ [][NextOperation]_vars

\* the keyword of OperationType[i] matches at st and no colon follows it
AbandonedAt(st, i) ==
    LET k == parse_keyword(st, OpValue(OperationType[i]))
    IN k.ok /\ Current(k.state) # ":"

\* C10: an abandoned attempt does not corrupt the cursor.  When parse_operation
\* has returned: if REPLACE WITH, ADD BEFORE or ADD AFTER matched at the position
\* the whitespace skip reached and no colon followed, the result is that of trying
\* the next keywords in priority order at that same position; and if the result
\* is "no operation found", the cursor is at that position.
C10_AbandonedAttemptKeepsCursor ==
    frame.pc = "returned" =>
        LET st == skip_whitespace(arg)
        IN /\ \A i \in 1..3 :
                  AbandonedAt(st, i) /\ (\A j \in 1..(i - 1) : ~AbandonedAt(st, j))
                  => ret = ParseOperationLoop(st, i + 1)
           /\ ret.value = None => ret.state = st

-----------------------------------------------------------------------------
(* apply_operation.  A raise is [ok |-> FALSE, message]; a return is       *)
(* [ok |-> TRUE, content].                                                 *)

ContextNotFound == "Context not found in file"
ContextMultiple == "Context appears multiple times in file"

\* ApplyKind with ADD AFTER's newline on the wrong side of the new text
ApplyKindNewlineAfter(content, operation, find_index) ==
    LET find == operation.find_content
        new == operation.new_content
        next_pos == find_index + Len(find)
    IN CASE operation.operation = "REPLACE" ->
              Slice(content, 0, find_index) \o new \o Slice(content, next_pos, Len(content))
         [] operation.operation = "ADD_BEFORE" ->
              Slice(content, 0, find_index) \o new \o <<NL>>
                  \o Slice(content, find_index, Len(content))
         [] operation.operation = "ADD_AFTER" ->
              Slice(content, 0, next_pos) \o new \o <<NL>>
                  \o Slice(content, next_pos, Len(content))
         [] operation.operation = "DELETE" ->
              Slice(content, 0, find_index) \o Slice(content, next_pos, Len(content))

ApplyKind(content, operation, find_index) ==
    LET find == operation.find_content
        new == operation.new_content
        next_pos == find_index + Len(find)
    IN CASE operation.operation = "REPLACE" ->
              Slice(content, 0, find_index) \o new \o Slice(content, next_pos, Len(content))
         [] operation.operation = "ADD_BEFORE" ->
              Slice(content, 0, find_index) \o new \o <<NL>>
                  \o Slice(content, find_index, Len(content))
         [] operation.operation = "ADD_AFTER" ->
              Slice(content, 0, next_pos) \o <<NL>> \o new
                  \o Slice(content, next_pos, Len(content))
         [] operation.operation = "DELETE" ->
              Slice(content, 0, find_index) \o Slice(content, next_pos, Len(content))

\* apply_operation that looks for the second occurrence after the end of the
\* first instead of after its start
ApplyOperationSkipsOverlap(content, operation) ==
    LET find_index == Find(content, operation.find_content, 0)
    IN IF find_index = -1 THEN [ok |-> FALSE, message |-> ContextNotFound]
       ELSE IF Find(content, operation.find_content,
                    find_index + Len(operation.find_content)) # -1
            THEN [ok |-> FALSE, message |-> ContextMultiple]
       ELSE [ok |-> TRUE, content |-> ApplyKind(content, operation, find_index)]

apply_operation(content, operation) ==
    LET find_index == Find(content, operation.find_content, 0)
    IN IF find_index = -1 THEN [ok |-> FALSE, message |-> ContextNotFound]
       ELSE IF Find(content, operation.find_content, find_index + 1) # -1
            THEN [ok |-> FALSE, message |-> ContextMultiple]
       ELSE [ok |-> TRUE, content |-> ApplyKind(content, operation, find_index)]

-----------------------------------------------------------------------------
(* SpecApplyOperation: apply_operation called on a content and one         *)
(* operation; arg = [content, operation].                                  *)

MaxLen == 3

Texts(n) == SeqsUpTo({"x", "y"}, n)

Kinds == {OperationType[i] : i \in 1..Len(OperationType)}

\* the operations over find and replacement texts of up to n characters; a
\* DELETE carries no replacement
Operations(paths, n) ==
    {PatchOperation(p, f, k, r) : p \in paths, f \in Texts(n), k \in Kinds \ {"DELETE"},
                                  r \in Texts(1)}
    \cup {PatchOperation(p, f, "DELETE", None) : p \in paths, f \in Texts(n)}

InitApplyOperation ==
    \E content \in Texts(MaxLen), operation \in Operations({<<"a">>}, MaxLen - 1) :
        /\ arg = [content |-> content, operation |-> operation]
        /\ frame = [pc |-> "call"]
        /\ ret = None
        /\ fs = NoFiles /\ fs0 = NoFiles /\ io_log = <<>>

CallApplyOperation ==
    /\ frame.pc = "call"
    /\ ret' = apply_operation(arg.content, arg.operation)
    /\ frame' = [pc |-> "returned"]
    /\ UNCHANGED <<arg, fs, fs0, io_log>>

NextApplyOperation == CallApplyOperation

SpecApplyOperation == InitApplyOperation /\ [][NextApplyOperation]_vars

\* the 0-based positions at which text m occurs in text c
Occurrences(c, m) == {i \in 0..(Len(c) - Len(m)) : Slice(c, i, i + Len(m)) = m}

\* C2: the four rewrites.  When apply_operation has returned for C = P + M + S
\* with M occurring exactly once in C, it returned P + R + S for REPLACE,
\* P + R + "\n" + M + S for ADD_BEFORE, P + M + "\n" + R + S for ADD_AFTER and
\* P + S for DELETE.
C2_RewriteOnUniqueMatch ==
    (frame.pc = "returned" /\ Cardinality(Occurrences(arg.content, arg.operation.find_content)) = 1)
    => LET C == arg.content
           M == arg.operation.find_content
           R == arg.operation.new_content
           at == CHOOSE i \in Occurrences(C, M) : TRUE
           P == SubSeq(C, 1, at)
           S == SubSeq(C, at + Len(M) + 1, Len(C))
           kind == arg.operation.operation
       IN /\ C = P \o M \o S
          /\ ret.ok
          /\ kind = "REPLACE" => ret.content = P \o R \o S
          /\ kind = "ADD_BEFORE" => ret.content = P \o R \o <<NL>> \o M \o S
          /\ kind = "ADD_AFTER" => ret.content = P \o M \o <<NL>> \o R \o S
          /\ kind = "DELETE" => ret.content = P \o S

\* ADD AFTER on a unique match that has text before and after it
C2_Witness ==
    /\ frame.pc = "returned"
    /\ arg.content = <<"x", "y", "x">>
    /\ arg.operation.find_content = <<"y">>
    /\ arg.operation.operation = "ADD_AFTER"
    /\ ret.ok /\ ret.content = <<"x", "y", NL, "y", "x">>

\* C3: the two failures.  When apply_operation has returned for an operation of
\* any kind: if the match text does not occur in the content it raised "Context
\* not found in file", if it occurs at two or more positions (overlapping ones
\* too) it raised "Context appears multiple times in file", and in both cases it
\* returned no content.
C3_NotFoundOrMultiple ==
    frame.pc = "returned" =>
        LET n == Cardinality(Occurrences(arg.content, arg.operation.find_content))
        IN /\ n = 0 => ret = [ok |-> FALSE, message |-> ContextNotFound]
           /\ n >= 2 => ret = [ok |-> FALSE, message |-> ContextMultiple]

\* an overlapping second occurrence, one position after the first
C3_Witness ==
    /\ frame.pc = "returned"
    /\ arg.content = <<"x", "x", "x">>
    /\ arg.operation.find_content = <<"x", "x">>
    /\ ~ret.ok /\ ret.message = ContextMultiple

-----------------------------------------------------------------------------
(* apply_operations_to_content.  Its activation is the record f: pc is     *)
(* "loop" at the head of the for loop, about to take operations[i], and    *)
(* "return" once it has returned f.result = [content, errors].             *)

ApplyFrame(content, ops) ==
    [pc |-> "loop", content |-> content, operations |-> ops, i |-> 0,
     current_content |-> content, errors |-> <<>>, result |-> None]

\* ApplyStep that returns the content edited so far when an operation fails
ApplyStepKeepsEdits(f) ==
    LET operation == f.operations[f.i + 1]
        r == apply_operation(f.current_content, operation)
        errs == Append(f.errors, Error(operation.file_path, r.message, f.i))
    IN IF f.i >= Len(f.operations)
       THEN [f EXCEPT !.pc = "return",
                      !.result = [content |-> f.current_content, errors |-> f.errors]]
       ELSE IF r.ok THEN [f EXCEPT !.current_content = r.content, !.i = @ + 1]
       ELSE [f EXCEPT !.pc = "return", !.errors = errs,
                      !.result = [content |-> f.current_content, errors |-> errs]]

ApplyStep(f) ==
    LET operation == f.operations[f.i + 1]
        r == apply_operation(f.current_content, operation)
        errs == Append(f.errors, Error(operation.file_path, r.message, f.i))
    IN IF f.i >= Len(f.operations)
       THEN [f EXCEPT !.pc = "return",
                      !.result = [content |-> f.current_content, errors |-> f.errors]]
       ELSE IF r.ok THEN [f EXCEPT !.current_content = r.content, !.i = @ + 1]
       ELSE [f EXCEPT !.pc = "return", !.errors = errs,
                      !.result = [content |-> f.content, errors |-> errs]]

RECURSIVE RunApply(_)
RunApply(f) == IF f.pc = "return" THEN f ELSE RunApply(ApplyStep(f))

apply_operations_to_content(content, ops) == RunApply(ApplyFrame(content, ops)).result

-----------------------------------------------------------------------------
(* SpecApplyAll: apply_operations_to_content run on a content and a list   *)
(* of operations, one loop iteration at a time; arg = [content,            *)
(* operations].                                                            *)

MaxOps == 3

BatchOperations ==
    { PatchOperation(<<"a">>, <<"x">>, "REPLACE", <<"y">>),
      PatchOperation(<<"a">>, <<"y">>, "REPLACE", <<"x", "x">>),
      PatchOperation(<<"a">>, <<"x">>, "DELETE", None),
      PatchOperation(<<"a">>, <<"y">>, "ADD_AFTER", <<"x">>),
      PatchOperation(<<"a">>, <<"x", "y">>, "ADD_BEFORE", <<"y">>) }

InitApplyAll ==
    \E content \in Texts(MaxLen), ops \in SeqsUpTo(BatchOperations, MaxOps) :
        /\ arg = [content |-> content, operations |-> ops]
        /\ frame = ApplyFrame(content, ops)
        /\ ret = None
        /\ fs = NoFiles /\ fs0 = NoFiles /\ io_log = <<>>

\* the iteration's apply_operation returns
OperationApplied ==
    /\ frame.pc = "loop" /\ frame.i < Len(frame.operations)
    /\ ApplyStep(frame).pc = "loop"
    /\ frame' = ApplyStep(frame)
    /\ UNCHANGED <<arg, ret, fs, fs0, io_log>>

\* the iteration's apply_operation raises: return the original content
OperationFailed ==
    /\ frame.pc = "loop" /\ frame.i < Len(frame.operations)
    /\ ApplyStep(frame).pc = "return"
    /\ frame' = ApplyStep(frame)
    /\ ret' = frame'.result
    /\ UNCHANGED <<arg, fs, fs0, io_log>>

\* the loop is over: return current_content
AllApplied ==
    /\ frame.pc = "loop" /\ frame.i >= Len(frame.operations)
    /\ frame' = ApplyStep(frame)
    /\ ret' = frame'.result
    /\ UNCHANGED <<arg, fs, fs0, io_log>>

NextApplyAll ==
    \/ OperationApplied
    \/ OperationFailed
    \/ AllApplied

SpecApplyAll == InitApplyAll /\ [][NextApplyAll]_vars

\* apply_operation's result on the content the first n operations produce, or
\* the first failure among them
RECURSIVE AfterPrefix(_, _, _)
AfterPrefix(content, ops, n) ==
    IF n = 0 THEN [ok |-> TRUE, content |-> content]
    ELSE LET before == AfterPrefix(content, ops, n - 1)
         IN IF before.ok THEN apply_operation(before.content, ops[n]) ELSE before

\* the 0-based indices of the operations at or after the first that fails
FailingFrom(content, ops) == {n \in 0..(Len(ops) - 1) : ~AfterPrefix(content, ops, n + 1).ok}

FirstFailing(content, ops) ==
    CHOOSE n \in FailingFrom(content, ops) : \A m \in FailingFrom(content, ops) : n <= m

\* C1: all-or-nothing.  For a content C and a list in which some operation fails
\* on the content the operations before it produce: no operation after the first
\* failing one is taken up (the loop index never passes it), and the call returns
\* C and exactly one Error, whose operation_index is the index of that operation,
\* however many operations succeeded before it.
C1_AllOrNothing ==
    FailingFrom(arg.content, arg.operations) # {} =>
        LET k == FirstFailing(arg.content, arg.operations)
        IN /\ frame.i <= k
           /\ frame.pc = "return" =>
                 /\ ret.content = arg.content
                 /\ Len(ret.errors) = 1
                 /\ ret.errors[1].operation_index = k
                 /\ ret.errors[1].file_path = arg.operations[k + 1].file_path

\* the second of three operations fails after the first changed the content
C1_Witness ==
    /\ frame.pc = "return"
    /\ Len(arg.operations) = 3
    /\ FailingFrom(arg.content, arg.operations) # {}
    /\ FirstFailing(arg.content, arg.operations) = 1
    /\ frame.current_content # arg.content
    /\ ret.content = arg.content

-----------------------------------------------------------------------------
(* group_operations_by_file.  A dict is the sequence of its items          *)
(* [key, value] in insertion order, the order a Python dict iterates in.   *)
(* The activation is the record f: pc is "loop" at the head of the for     *)
(* loop, about to take operations[i], and "return" once it has returned    *)
(* f.result.                                                               *)

HasKey(dict, key) == \E j \in 1..Len(dict) : dict[j].key = key

GroupFrame(ops) == [pc |-> "loop", operations |-> ops, i |-> 0, result |-> <<>>]

\* GroupStep that puts the operation at the front of its group
GroupStepPrepends(f) ==
    LET op == f.operations[f.i + 1]
        with_key == IF HasKey(f.result, op.file_path) THEN f.result
                    ELSE Append(f.result, [key |-> op.file_path, value |-> <<>>])
        appended == [j \in 1..Len(with_key) |->
                        IF with_key[j].key = op.file_path
                        THEN [with_key[j] EXCEPT !.value = <<op>> \o @]
                        ELSE with_key[j]]
    IN IF f.i >= Len(f.operations) THEN [f EXCEPT !.pc = "return"]
       ELSE [f EXCEPT !.result = appended, !.i = @ + 1]

GroupStep(f) ==
    LET op == f.operations[f.i + 1]
        with_key == IF HasKey(f.result, op.file_path) THEN f.result
                    ELSE Append(f.result, [key |-> op.file_path, value |-> <<>>])
        appended == [j \in 1..Len(with_key) |->
                        IF with_key[j].key = op.file_path
                        THEN [with_key[j] EXCEPT !.value = Append(@, op)]
                        ELSE with_key[j]]
    IN IF f.i >= Len(f.operations) THEN [f EXCEPT !.pc = "return"]
       ELSE [f EXCEPT !.result = appended, !.i = @ + 1]

RECURSIVE RunGroup(_)
RunGroup(f) == IF f.pc = "return" THEN f ELSE RunGroup(GroupStep(f))

group_operations_by_file(ops) == RunGroup(GroupFrame(ops)).result

-----------------------------------------------------------------------------
(* SpecGroup: group_operations_by_file run on a list of operations, one    *)
(* loop iteration at a time; arg is the list.                              *)

GroupOperations ==
    {PatchOperation(p, f, "DELETE", None) : p \in {<<"a">>, <<"b">>, <<"c">>},
                                            f \in {<<"x">>, <<"y">>}}

InitGroup ==
    \E ops \in SeqsUpTo(GroupOperations, MaxOps) :
        /\ arg = ops
        /\ frame = GroupFrame(ops)
        /\ ret = None
        /\ fs = NoFiles /\ fs0 = NoFiles /\ io_log = <<>>

\* an operation on a path seen for the first time
GroupNewPath ==
    /\ frame.pc = "loop" /\ frame.i < Len(frame.operations)
    /\ ~HasKey(frame.result, frame.operations[frame.i + 1].file_path)
    /\ frame' = GroupStep(frame)
    /\ UNCHANGED <<arg, ret, fs, fs0, io_log>>

\* an operation on a path that has a group
GroupSeenPath ==
    /\ frame.pc = "loop" /\ frame.i < Len(frame.operations)
    /\ HasKey(frame.result, frame.operations[frame.i + 1].file_path)
    /\ frame' = GroupStep(frame)
    /\ UNCHANGED <<arg, ret, fs, fs0, io_log>>

GroupReturn ==
    /\ frame.pc = "loop" /\ frame.i >= Len(frame.operations)
    /\ frame' = GroupStep(frame)
    /\ ret' = frame.result
    /\ UNCHANGED <<arg, fs, fs0, io_log>>

NextGroup ==
    \/ GroupNewPath
    \/ GroupSeenPath
    \/ GroupReturn

SpecGroup == InitGroup /\ [][NextGroup]_vars

\* the 1-based index of the first operation of ops on path
FirstSeen(ops, path) ==
    CHOOSE i \in 1..Len(ops) :
        ops[i].file_path = path /\ \A j \in 1..(i - 1) : ops[j].file_path # path

\* the operations of ops on path, in the order of ops
OnPath(ops, path) == SelectSeq(ops, LAMBDA op : op.file_path = path)

RECURSIVE SumLen(_)
SumLen(dict) == IF dict = <<>> THEN 0 ELSE Len(dict[1].value) + SumLen(Tail(dict))

\* C8: a stable partition.  When group_operations_by_file has returned: its keys
\* are the paths of the operations, each once, in first-seen order; the group of
\* a key is the operations on that path in their original relative order; and the
\* groups hold as many operations as the list, so none is lost, duplicated or
\* moved to another file.
C8_StablePartition ==
    frame.pc = "return" =>
        /\ {ret[j].key : j \in 1..Len(ret)} = {arg[i].file_path : i \in 1..Len(arg)}
        /\ \A j, k \in 1..Len(ret) :
              j < k => FirstSeen(arg, ret[j].key) < FirstSeen(arg, ret[k].key)
        /\ \A j \in 1..Len(ret) : ret[j].value = OnPath(arg, ret[j].key)
        /\ SumLen(ret) = Len(arg)

\* three operations on two paths, the second path between the first path's two
C8_Witness ==
    /\ frame.pc = "return"
    /\ Len(arg) = 3
    /\ arg[1].file_path = arg[3].file_path
    /\ arg[1].file_path # arg[2].file_path
    /\ arg[1] # arg[3]
    /\ Len(ret) = 2 /\ ret[1].value = <<arg[1], arg[3]>>

-----------------------------------------------------------------------------
(* main.  arg is the script on standard input (the list of its blocks),    *)
(* ret the exit status.  The activation is the record f: pc is "start" at  *)
(* entry, "files" at the head of the loop over grouped_operations.items(), *)
(* about to take its n-th item, and "exit" once the process has exited.    *)
(* A path names one file: fs has one entry per path.                       *)

MainFrame ==
    [pc |-> "start", operations |-> <<>>, parse_errors |-> <<>>,
     grouped_operations |-> <<>>, n |-> 0, apply_errors |-> <<>>]

\* os.path.exists(path)
Exists(files, path) == path \in DOMAIN files /\ files[path] # Missing

\* main without the parse-error gate
NeverExitOnParseErrors(parsed) == FALSE

\* `if parse_errors:` print them and sys.exit(1)
ExitOnParseErrors(parsed) == parsed.errors # <<>>

\* main up to the loop over the files, when it does not exit
AfterParse(f, parsed) ==
    [f EXCEPT !.pc = "files", !.operations = parsed.operations,
              !.parse_errors = parsed.errors,
              !.grouped_operations = group_operations_by_file(parsed.operations)]

\* the iteration's item
Item(f) == f.grouped_operations[f.n + 1]

\* the iteration ends with file-level error `message`
FileLevelError(f, message) ==
    [f EXCEPT !.apply_errors = Append(@, Error(Item(f).key, message, -1)), !.n = @ + 1]

\* the iteration that leaves the loop (`break`) on the batch's errors
BatchErrorsBreak(f, errs) ==
    [f EXCEPT !.apply_errors = @ \o errs, !.n = Len(f.grouped_operations)]

\* the iteration ends at `continue` with the batch's errors
BatchErrors(f, errs) == [f EXCEPT !.apply_errors = @ \o errs, !.n = @ + 1]

\* the iteration ends after the write
Written(f) == [f EXCEPT !.n = @ + 1]

-----------------------------------------------------------------------------
(* Spec: main run on a script and a file system *)

FilePaths == {<<"a">>, <<"b">>}

FileContents == {Missing, <<"x", "y">>, <<"x", "y", "x">>}

Init ==
    \E blocks \in Scripts, files \in [FilePaths -> FileContents] :
        /\ arg = blocks
        /\ frame = MainFrame
        /\ ret = None
        /\ fs = files /\ fs0 = files /\ io_log = <<>>

\* the script has parse errors: report them and exit 1
MainParseErrors ==
    /\ frame.pc = "start"
    /\ ExitOnParseErrors(parse_patch_file(ScriptText(arg)))
    /\ frame' = [frame EXCEPT !.pc = "exit",
                               !.operations = parse_patch_file(ScriptText(arg)).operations,
                               !.parse_errors = parse_patch_file(ScriptText(arg)).errors]
    /\ ret' = 1
    /\ UNCHANGED <<arg, fs, fs0, io_log>>

\* the script parsed: group its operations
MainParsed ==
    /\ frame.pc = "start"
    /\ ~ExitOnParseErrors(parse_patch_file(ScriptText(arg)))
    /\ frame' = AfterParse(frame, parse_patch_file(ScriptText(arg)))
    /\ UNCHANGED <<arg, ret, fs, fs0, io_log>>

InLoop == frame.pc = "files" /\ frame.n < Len(frame.grouped_operations)

FileNotFound ==
    /\ InLoop
    /\ ~Exists(fs, Item(frame).key)
    /\ frame' = FileLevelError(frame, <<"File not found:", Item(frame).key>>)
    /\ io_log' = Append(io_log, <<"exists", Item(frame).key>>)
    /\ UNCHANGED <<arg, ret, fs, fs0>>

\* opening the file to read it raises: `except Exception`
FileReadRaises ==
    /\ InLoop
    /\ Exists(fs, Item(frame).key)
    /\ frame' = FileLevelError(frame, <<"OSError">>)
    /\ io_log' = Append(io_log, <<"exists", Item(frame).key>>)
    /\ UNCHANGED <<arg, ret, fs, fs0>>

FileBatchFailed ==
    /\ InLoop
    /\ Exists(fs, Item(frame).key)
    /\ LET r == apply_operations_to_content(fs[Item(frame).key], Item(frame).value)
       IN /\ r.errors # <<>>
          /\ frame' = BatchErrors(frame, r.errors)
    /\ io_log' = io_log \o <<<<"exists", Item(frame).key>>, <<"read", Item(frame).key>>>>
    /\ UNCHANGED <<arg, ret, fs, fs0>>

FileWritten ==
    /\ InLoop
    /\ Exists(fs, Item(frame).key)
    /\ LET r == apply_operations_to_content(fs[Item(frame).key], Item(frame).value)
       IN /\ r.errors = <<>>
          /\ fs' = [fs EXCEPT ![Item(frame).key] = r.content]
    /\ frame' = Written(frame)
    /\ io_log' = io_log \o <<<<"exists", Item(frame).key>>, <<"read", Item(frame).key>>,
                              <<"write", Item(frame).key>>>>
    /\ UNCHANGED <<arg, ret, fs0>>

\* opening the file to write it raises: `except Exception`
FileWriteRaises ==
    /\ InLoop
    /\ Exists(fs, Item(frame).key)
    /\ apply_operations_to_content(fs[Item(frame).key], Item(frame).value).errors = <<>>
    /\ frame' = FileLevelError(frame, <<"OSError">>)
    /\ io_log' = io_log \o <<<<"exists", Item(frame).key>>, <<"read", Item(frame).key>>>>
    /\ UNCHANGED <<arg, ret, fs, fs0>>

\* the loop is over: exit 1 if there are apply errors, else 0
MainReport ==
    /\ frame.pc = "files" /\ frame.n >= Len(frame.grouped_operations)
    /\ frame' = [frame EXCEPT !.pc = "exit"]
    /\ ret' = IF frame.apply_errors # <<>> THEN 1 ELSE 0
    /\ UNCHANGED <<arg, fs, fs0, io_log>>

Next ==
    \/ MainParseErrors
    \/ MainParsed
    \/ FileNotFound
    \/ FileReadRaises
    \/ FileBatchFailed
    \/ FileWritten
    \/ FileWriteRaises
    \/ MainReport

Spec == Init /\ [][Next]_vars

\* C4: the parse-error gate.  Once parse_patch_file has returned a parse error to
\* main, the process has exited with status 1, no file-system call has been made
\* and every file has the content it had before the run, whatever operations the
\* rest of the script parsed into.
C4_ParseErrorsTouchNoFile ==
    frame.parse_errors # <<>> =>
        /\ frame.pc = "exit" /\ ret = 1
        /\ io_log = <<>>
        /\ fs = fs0

\* parse errors beside an operation that would have applied to an existing file
C4_Witness ==
    /\ frame.pc = "exit"
    /\ frame.parse_errors # <<>>
    /\ \E i \in 1..Len(frame.operations) :
          /\ Exists(fs0, frame.operations[i].file_path)
          /\ apply_operation(fs0[frame.operations[i].file_path], frame.operations[i]).ok

\* a file-level error (index -1) is recorded for path
FileLevelErrorOn(path) ==
    \E i \in 1..Len(frame.apply_errors) :
        frame.apply_errors[i].file_path = path /\ frame.apply_errors[i].operation_index = -1

\* what the file at path holds after the run, from its own content and its own
\* operations alone
OwnOutcome(path) ==
    LET own == OnPath(frame.operations, path)
        r == apply_operations_to_content(fs0[path], own)
    IN IF own = <<>> \/ fs0[path] = Missing THEN fs0[path]
       ELSE IF r.errors = <<>> /\ ~FileLevelErrorOn(path) THEN r.content
       ELSE fs0[path]

\* C5: per-file scope.  In the apply phase, a file written so far was written
\* with the result of its own batch, which had no errors; and when main has
\* exited, each file holds the result of its own operations on its own content if
\* that batch had no errors (and no file-level error was recorded for it), and its
\* content from before the run otherwise: nothing depends on another file's batch.
C5_PerFileOutcome ==
    \A path \in DOMAIN fs :
        LET own == OnPath(frame.operations, path)
            r == apply_operations_to_content(fs0[path], own)
        IN /\ fs[path] # fs0[path] => r.errors = <<>> /\ fs[path] = r.content
           /\ (\E i \in 1..Len(io_log) : io_log[i] = <<"write", path>>)
                 => fs0[path] # Missing /\ r.errors = <<>> /\ fs[path] = r.content
           /\ frame.pc = "exit" /\ frame.parse_errors = <<>> => fs[path] = OwnOutcome(path)

\* the first file's batch failed after an operation of it had applied and left
\* the file unchanged, the second file's batch was written
C5_Witness ==
    /\ frame.pc = "exit"
    /\ Len(frame.grouped_operations) = 2
    /\ \E i \in 1..Len(frame.apply_errors) :
          /\ frame.apply_errors[i].file_path = frame.grouped_operations[1].key
          /\ frame.apply_errors[i].operation_index >= 1
    /\ fs[frame.grouped_operations[1].key] = fs0[frame.grouped_operations[1].key]
    /\ fs[frame.grouped_operations[2].key] # fs0[frame.grouped_operations[2].key]

-----------------------------------------------------------------------------
(* SpecRoundTrip: parse_patch_file called on the serialization of a list   *)
(* of operations; arg is the list.  The serialization writes the grammar   *)
(* of the patch script: FILE: and the path where the path changes, then    *)
(* for each operation FIND:, the match text, the operation keyword and     *)
(* the replacement text, each on lines of its own.                         *)

RECURSIVE SerializeFrom(_, _)
SerializeFrom(ops, i) ==
    IF i > Len(ops) THEN <<>>
    ELSE (IF i = 1 \/ ops[i].file_path # ops[i - 1].file_path
          THEN FileLine(ops[i].file_path) ELSE <<>>)
         \o FindText(ops[i].find_content) \o OperationText(ops[i])
         \o SerializeFrom(ops, i + 1)

Serialize(ops) == SerializeFrom(ops, 1)

MaxRoundTrip == 2

RoundTripOperations ==
    { PatchOperation(<<"a">>, <<"x">>, "REPLACE", <<"y">>),
      PatchOperation(<<"a">>, <<"x", NL, NL, " ", "y">>, "ADD_BEFORE", KwDELETE),
      PatchOperation(<<"b">>, KwFILE, "DELETE", None),
      PatchOperation(<<"b">>, <<>>, "ADD_AFTER", KwFIND \o <<" ", " ", "y">>),
      PatchOperation(<<"a">>, <<"y">>, "REPLACE", <<>>),
      PatchOperation(<<"a">>, <<" ", "x">>, "REPLACE", <<"y">>),
      PatchOperation(<<"a">>, <<"x">>, "ADD_AFTER", <<"y", " ">>),
      PatchOperation(<<"a", "\\", "b">>, <<"x">>, "DELETE", None),
      PatchOperation(<<"a">>, <<"x", " ">> \o KwDELETE, "REPLACE", <<"y">>),
      PatchOperation(<<"b">>, <<"x">>, "REPLACE", <<"y", NL>> \o KwFIND \o <<"x">>),
      PatchOperation(<<"b">>, <<"x">>, "ADD_BEFORE", <<"y", NL>> \o KwFILE) }

InitRoundTrip ==
    \E ops \in SeqsUpTo(RoundTripOperations, MaxRoundTrip) :
        /\ arg = ops
        /\ frame = [pc |-> "call"]
        /\ ret = None
        /\ fs = NoFiles /\ fs0 = NoFiles /\ io_log = <<>>

CallParseSerialized ==
    /\ frame.pc = "call"
    /\ ret' = parse_patch_file(Serialize(arg))
    /\ frame' = [pc |-> "returned"]
    /\ UNCHANGED <<arg, fs, fs0, io_log>>

NextRoundTrip == CallParseSerialized

SpecRoundTrip == InitRoundTrip /\ [][NextRoundTrip]_vars

\* text t occurs in text s
Contains(s, t) == \E i \in 0..(Len(s) - Len(t)) : StartsWithAt(s, i, t)

Trimmed(s) == s = <<>> \/ (~IsSpace(s[1]) /\ ~IsSpace(s[Len(s)]))

\* the lists the round trip keeps: paths that are non-empty, trimmed and free of
\* newline, backslash and FIND:; match texts that are trimmed and free of the four
\* operation tokens; no replacement on a DELETE; on the other kinds a replacement
\* that is trimmed, free of "\nFIND:" and "\nFILE:", and empty only on the last
\* operation of the list
Serializable(ops) ==
    \A i \in 1..Len(ops) :
        LET op == ops[i]
        IN /\ op.file_path # <<>> /\ Trimmed(op.file_path)
           /\ ~Contains(op.file_path, <<NL>>)
           /\ ~Contains(op.file_path, <<"\\">>)
           /\ ~Contains(op.file_path, KwFIND)
           /\ Trimmed(op.find_content)
           /\ \A d \in 1..Len(FindDelimiters) : ~Contains(op.find_content, FindDelimiters[d])
           /\ IF op.operation = "DELETE" THEN op.new_content = None
              ELSE /\ op.new_content # None
                   /\ Trimmed(op.new_content)
                   /\ \A d \in 1..Len(OperationDelimiters) :
                         ~Contains(op.new_content, OperationDelimiters[d])
                   /\ op.new_content = <<>> => i = Len(ops)

\* C7 as stated: round trip of every list.  When parse_patch_file has returned
\* on the serialization of a list of operations, it returned no error and a list
\* equal to the original in path, match text, kind and replacement text.
C7_RoundTripEveryList ==
    frame.pc = "returned" => ret.errors = <<>> /\ ret.operations = arg

\* C7 as amended: round trip of the serializable lists.  When parse_patch_file has
\* returned on the serialization of a list that satisfies Serializable, it
\* returned no error and a list equal to the original in path, match text, kind
\* and replacement text, blank lines and spaces inside the payloads included.
C7_RoundTripSerializable ==
    (frame.pc = "returned" /\ Serializable(arg))
    => ret.errors = <<>> /\ ret.operations = arg

\* a serializable list of two operations whose first match text holds a blank
\* line and a line that starts with a space
C7_Witness ==
    /\ frame.pc = "returned"
    /\ Serializable(arg)
    /\ Len(arg) = 2
    /\ arg[1].find_content = <<"x", NL, NL, " ", "y">>
    /\ arg[2].file_path = arg[1].file_path
    /\ ret.operations = arg

====
